---- MODULE Spec2Model ----
(***************************************************************************)
(* Model of the bevy-ai-toolkit template (state machine, behavior tree,    *)
(* utility AI, targeting).  Each component has its own specification over  *)
(* the shared variables; a component's specification leaves the other      *)
(* components' variables at their idle values.                             *)
(***************************************************************************)
EXTENDS Integers, Sequences, FiniteSets, TLC

VARIABLES
    \* state_machine: the StateMachine component, the value it was built with,
    \* and the arguments of the transition_to calls made so far (history)
    sm, sm_initial, sm_calls,
    \* behavior_tree: the tree (leaves carry the status their next tick
    \* returns) and the outcome of the last tick of the root, if any
    root, bt_tick, bt_prev,
    \* utility_ai: the score each consideration's scorer returns now, and the
    \* outcome of the last select_best, if any
    considerations, ua_selected,
    \* targeting: the live entities, their GlobalTransform translations, the
    \* Vision ranges, the Targetable markers, the Target components, and the
    \* Targets as they were before the pass that has just run, if one has
    alive, translation, vision, targetable, target, pass_before,
    \* the example's enemies: the StateMachine<EnemyState> components
    enemy_sm,
    \* the StateMachine components before update_enemy_state, when it has
    \* just run
    state_before,
    \* the example app: the schedule it is in, the frame count, and the Update
    \* systems that have run in this frame
    app_phase, app_frame, app_ran,
    \* bevy-combat: State<CombatState>, NextState<CombatState>, the state the
    \* app started in and the runs of manage_combat_state so far (history)
    combat_state, next_combat_state, combat_initial, combat_seen,
    \* vintage_ai_client: the VoiceGenerator's api_key, the AiCache and the
    \* TokenCounter its clones share, and the generate_voice calls: where each
    \* is, its arguments, its cache key, the audio it got and what it returned
    api_key, cache, token_counter,
    vo_pc, vo_args, vo_key, vo_audio, vo_result,
    \* history: the calls started, what each call has done, the cache and the
    \* counter when it started, the bytes a call for its arguments had
    \* returned by then, the first bytes returned for each arguments, and
    \* per arguments the TTS requests and the usage records made
    vo_calls, vo_did, vo_snapshot, vo_prior, vo_succeeded, vo_requests,
    vo_records

smVars == <<sm, sm_initial, sm_calls>>
btVars == <<root, bt_tick, bt_prev>>
uaVars == <<considerations, ua_selected>>
tgVars == <<alive, translation, vision, targetable, target, pass_before>>
enVars == <<enemy_sm, state_before>>
coVars == <<combat_state, next_combat_state, combat_initial, combat_seen>>
apVars == <<app_phase, app_frame, app_ran>>
voVars ==
    <<api_key, cache, token_counter, vo_pc, vo_args, vo_key, vo_audio,
      vo_result, vo_calls, vo_did, vo_snapshot, vo_prior, vo_succeeded,
      vo_requests, vo_records>>
otherVars == <<apVars, coVars, voVars>>
restVars == <<enVars, otherVars>>
vars == <<smVars, btVars, uaVars, tgVars, restVars>>

\* Option<T>: None is the empty set, Some(x) the singleton
None == {}
Some(x) == {x}

\* The entities of the world
Entities == {"e1", "e2", "e3"}

\* The values a component's variables keep under the other components'
\* specifications
IdleStateMachine ==
    /\ sm = [current_state |-> "Idle"]
    /\ sm_initial = "Idle"
    /\ sm_calls = <<>>

IdleBehaviorTree ==
    /\ root = [kind |-> "Leaf", result |-> "Success"]
    /\ bt_tick = None
    /\ bt_prev = None

IdleUtilityAi ==
    /\ considerations = <<>>
    /\ ua_selected = None

IdleTargeting ==
    /\ alive = {}
    /\ translation = [e \in Entities |-> <<0, 0>>]
    /\ vision = [e \in Entities |-> None]
    /\ targetable = {}
    /\ target = [e \in Entities |-> None]
    /\ pass_before = None

IdleEnemies ==
    /\ enemy_sm = [e \in Entities |-> None]
    /\ state_before = None

IdleCombat ==
    /\ combat_state = "None"
    /\ next_combat_state = None
    /\ combat_initial = "None"
    /\ combat_seen = <<>>

IdleApp ==
    /\ app_phase = "Startup"
    /\ app_frame = 0
    /\ app_ran = {}

\* The clones of the VoiceGenerator, one call at a time each
Tasks == {"t1", "t2"}

IdleVoice ==
    /\ api_key = ""
    /\ cache = <<>>
    /\ token_counter = <<>>
    /\ vo_pc = [t \in Tasks |-> "idle"]
    /\ vo_args = [t \in Tasks |-> None]
    /\ vo_key = [t \in Tasks |-> None]
    /\ vo_audio = [t \in Tasks |-> None]
    /\ vo_result = [t \in Tasks |-> None]
    /\ vo_calls = 0
    /\ vo_did = [t \in Tasks |-> {}]
    /\ vo_snapshot = [t \in Tasks |-> None]
    /\ vo_prior = [t \in Tasks |-> None]
    /\ vo_succeeded = <<>>
    /\ vo_requests = <<>>
    /\ vo_records = <<>>

IdleOther == IdleApp /\ IdleCombat /\ IdleVoice
IdleRest == IdleEnemies /\ IdleOther

(***************************************************************************)
(* state_machine/mod.rs                                                    *)
(***************************************************************************)

\* The state type S: the example's EnemyState
EnemyState == {"Idle", "Chasing", "Attacking"}

MaxCalls == 4

\* StateMachine::new
new(initial_state) == [current_state |-> initial_state]

\* A transition_to that consults a transition table (Idle cannot attack)
transition_to_table(self, next_state) ==
    IF self.current_state = "Idle" /\ next_state = "Attacking"
    THEN self
    ELSE [self EXCEPT !.current_state = next_state]

\* StateMachine::transition_to
transition_to(self, next_state) == [self EXCEPT !.current_state = next_state]

InitStateMachine ==
    /\ \E initial_state \in EnemyState :
          /\ sm = new(initial_state)
          /\ sm_initial = initial_state
    /\ sm_calls = <<>>
    /\ IdleBehaviorTree /\ IdleUtilityAi /\ IdleTargeting /\ IdleRest

TransitionTo(next_state) ==
    /\ Len(sm_calls) < MaxCalls
    /\ sm' = transition_to(sm, next_state)
    /\ sm_calls' = Append(sm_calls, next_state)
    /\ UNCHANGED <<sm_initial, btVars, uaVars, tgVars, restVars>>

NextStateMachine == \E next_state \in EnemyState : TransitionTo(next_state)

SpecStateMachine == InitStateMachine /\ [][NextStateMachine]_vars

\* C1: current_state is the argument of the most recent transition_to call,
\* or the initial state when no call was made: nothing is rejected or coerced
C1_LastTransitionWins ==
    sm.current_state =
        IF sm_calls = <<>> THEN sm_initial ELSE sm_calls[Len(sm_calls)]

\* C1 witness: a call that changed the state, then a call back to the
\* initial state, and a repeated call
C1_Witness ==
    /\ Len(sm_calls) >= 3
    /\ sm_calls[1] # sm_initial
    /\ sm_calls[Len(sm_calls)] = sm_calls[Len(sm_calls) - 1]
    /\ sm_initial = "Idle" /\ sm_calls[1] = "Attacking"
    /\ sm.current_state = sm_calls[Len(sm_calls)]

(***************************************************************************)
(* behavior_tree/mod.rs                                                    *)
(***************************************************************************)

NodeStatus == {"Success", "Failure", "Running"}

\* A leaf BehaviorNode: opaque to the tree, it returns `result` when ticked
Leaf(result) == [kind |-> "Leaf", result |-> result]
Selector(children) == [kind |-> "Selector", children |-> children]
Sequence(children) == [kind |-> "Sequence", children |-> children]

IsComposite(node) == node.kind \in {"Selector", "Sequence"}

MaxNodes == 4

\* Every tree of exactly n nodes, every list of trees of n nodes in all
RECURSIVE TreesOfSize(_), ForestsOfSize(_)
TreesOfSize(n) ==
    IF n = 0 THEN {}
    ELSE (IF n = 1 THEN {Leaf(r) : r \in NodeStatus} ELSE {})
         \cup {Selector(f) : f \in ForestsOfSize(n - 1)}
         \cup {Sequence(f) : f \in ForestsOfSize(n - 1)}
ForestsOfSize(n) ==
    IF n = 0 THEN {<<>>}
    ELSE UNION {{<<t>> \o f : t \in TreesOfSize(k), f \in ForestsOfSize(n - k)} :
                k \in 1..n}

AllTrees == UNION {TreesOfSize(n) : n \in 1..MaxNodes}

\* The outcome of a tick: the status returned and the tick calls made, in
\* call order, each with the path of the node ticked and what it returned
Outcome(status, log) == [status |-> status, log |-> log]
Entry(path, status) == [path |-> path, status |-> status]

RECURSIVE tick(_, _), Selector_loop(_, _, _, _), Sequence_loop(_, _, _, _)

\* A Selector that takes Running for a failed alternative
Selector_loop_skip_running(children, i, path, log) ==
    IF i > Len(children) THEN Outcome("Failure", log)
    ELSE LET r == tick(children[i], Append(path, i)) IN
         CASE r.status = "Success" -> Outcome("Success", log \o r.log)
           [] r.status = "Running" ->
                Selector_loop(children, i + 1, path, log \o r.log)
           [] r.status = "Failure" ->
                Selector_loop(children, i + 1, path, log \o r.log)

\* A Selector that ticks all its children before it looks at the results
Selector_loop_eager(children, i, path, log) ==
    IF i > Len(children) THEN Outcome("Failure", log)
    ELSE LET r == tick(children[i], Append(path, i))
             rest == Selector_loop(children, i + 1, path, log \o r.log)
         IN IF r.status = "Failure" THEN rest ELSE Outcome(r.status, rest.log)

\* A Selector that remembers the child that returned Running in the tick
\* before and starts the next tick at that child
Selector_loop_resume(children, i, path, log) ==
    LET running == {k \in 2..Len(children) :
                      \E o \in bt_tick : \E j \in 1..Len(o.log) :
                          o.log[j] = Entry(Append(path, k), "Running")}
    IN IF i = 1 /\ running # {}
       THEN Selector_loop(children, CHOOSE k \in running : TRUE, path, log)
       ELSE IF i > Len(children) THEN Outcome("Failure", log)
       ELSE LET r == tick(children[i], Append(path, i)) IN
            CASE r.status = "Success" -> Outcome("Success", log \o r.log)
              [] r.status = "Running" -> Outcome("Running", log \o r.log)
              [] r.status = "Failure" ->
                   Selector_loop(children, i + 1, path, log \o r.log)

\* Selector::tick, the loop from child i on
Selector_loop(children, i, path, log) ==
    IF i > Len(children) THEN Outcome("Failure", log)
    ELSE LET r == tick(children[i], Append(path, i)) IN
         CASE r.status = "Success" -> Outcome("Success", log \o r.log)
           [] r.status = "Running" -> Outcome("Running", log \o r.log)
           [] r.status = "Failure" ->
                Selector_loop(children, i + 1, path, log \o r.log)

\* A Sequence whose match arms are the Selector's
Sequence_loop_as_selector(children, i, path, log) ==
    IF i > Len(children) THEN Outcome("Success", log)
    ELSE LET r == tick(children[i], Append(path, i)) IN
         CASE r.status = "Success" -> Outcome("Success", log \o r.log)
           [] r.status = "Running" -> Outcome("Running", log \o r.log)
           [] r.status = "Failure" ->
                Sequence_loop(children, i + 1, path, log \o r.log)

\* A Sequence that takes Running for a finished step
Sequence_loop_skip_running(children, i, path, log) ==
    IF i > Len(children) THEN Outcome("Success", log)
    ELSE LET r == tick(children[i], Append(path, i)) IN
         CASE r.status = "Success" ->
                Sequence_loop(children, i + 1, path, log \o r.log)
           [] r.status = "Running" ->
                Sequence_loop(children, i + 1, path, log \o r.log)
           [] r.status = "Failure" -> Outcome("Failure", log \o r.log)

\* Sequence::tick, the loop from child i on
Sequence_loop(children, i, path, log) ==
    IF i > Len(children) THEN Outcome("Success", log)
    ELSE LET r == tick(children[i], Append(path, i)) IN
         CASE r.status = "Success" ->
                Sequence_loop(children, i + 1, path, log \o r.log)
           [] r.status = "Running" -> Outcome("Running", log \o r.log)
           [] r.status = "Failure" -> Outcome("Failure", log \o r.log)

\* BehaviorNode::tick, dispatched on the node's type
tick(node, path) ==
    IF node.kind = "Leaf"
    THEN Outcome(node.result, <<Entry(path, node.result)>>)
    ELSE LET r == IF node.kind = "Selector"
                  THEN Selector_loop(node.children, 1, path, <<>>)
                  ELSE Sequence_loop(node.children, 1, path, <<>>)
         IN Outcome(r.status, <<Entry(path, r.status)>> \o r.log)

\* The node at a path below `node`
RECURSIVE node_at(_, _)
node_at(node, path) ==
    IF path = <<>> THEN node
    ELSE node_at(node.children[Head(path)], Tail(path))

\* The paths of the leaves below `node`
RECURSIVE leaf_paths(_, _)
leaf_paths(node, path) ==
    IF node.kind = "Leaf" THEN {path}
    ELSE UNION {leaf_paths(node.children[i], Append(path, i)) :
                i \in 1..Len(node.children)}

\* `node` with the leaf at `path` returning `result` from now on
RECURSIVE set_leaf(_, _, _)
set_leaf(node, path, result) ==
    IF path = <<>> THEN Leaf(result)
    ELSE [node EXCEPT !.children[Head(path)] =
              set_leaf(node.children[Head(path)], Tail(path), result)]

InitBehaviorTree ==
    /\ root \in AllTrees
    /\ bt_tick = None
    /\ bt_prev = None
    /\ IdleStateMachine /\ IdleUtilityAi /\ IdleTargeting /\ IdleRest

\* One tick of the tree by the host
Tick ==
    /\ bt_tick' = Some(tick(root, <<>>))
    /\ bt_prev' = bt_tick
    /\ UNCHANGED <<root, smVars, uaVars, tgVars, restVars>>

\* Between ticks a leaf comes to return another status
LeafChange(path, result) ==
    /\ node_at(root, path).result # result
    /\ root' = set_leaf(root, path, result)
    /\ bt_tick' = None
    /\ bt_prev' = None
    /\ UNCHANGED <<smVars, uaVars, tgVars, restVars>>

NextBehaviorTree ==
    \/ Tick
    \/ \E path \in leaf_paths(root, <<>>), result \in NodeStatus :
          LeafChange(path, result)

SpecBehaviorTree == InitBehaviorTree /\ [][NextBehaviorTree]_vars

\* The status child i of the node at `path` returns when ticked
ChildStatus(node, path, i) == tick(node.children[i], Append(path, i)).status

\* The entries of the last tick whose node is of `kind`
TickedOfKind(kind) ==
    {e \in UNION {{o.log[j] : j \in 1..Len(o.log)} : o \in bt_tick} :
        node_at(root, e.path).kind = kind}

\* C2: a ticked Selector returns the result of its first child that does not
\* return Failure, and Failure when every child returns Failure
C2_SelectorFirstNonFailure ==
    \A e \in TickedOfKind("Selector") :
        LET node == node_at(root, e.path)
            N == Len(node.children)
            NotFailed == {i \in 1..N : ChildStatus(node, e.path, i) # "Failure"}
        IN IF NotFailed = {}
           THEN e.status = "Failure"
           ELSE LET first == CHOOSE i \in NotFailed : \A j \in NotFailed : i <= j
                IN /\ e.status = ChildStatus(node, e.path, first)
                   /\ e.status \in {"Success", "Running"}

\* C2 witness: a ticked Selector whose first child fails and whose second
\* returns Running before a child that would succeed
C2_Witness ==
    \E e \in TickedOfKind("Selector") :
        LET node == node_at(root, e.path) IN
        /\ Len(node.children) = 3
        /\ ChildStatus(node, e.path, 1) = "Failure"
        /\ ChildStatus(node, e.path, 2) = "Running"
        /\ ChildStatus(node, e.path, 3) = "Success"
        /\ e.status = "Running"

\* C3: a ticked Sequence returns the result of its first child that does not
\* return Success, and Success when every child returns Success
C3_SequenceFirstNonSuccess ==
    \A e \in TickedOfKind("Sequence") :
        LET node == node_at(root, e.path)
            N == Len(node.children)
            NotDone == {i \in 1..N : ChildStatus(node, e.path, i) # "Success"}
        IN IF NotDone = {}
           THEN e.status = "Success"
           ELSE LET first == CHOOSE i \in NotDone : \A j \in NotDone : i <= j
                IN /\ e.status = ChildStatus(node, e.path, first)
                   /\ e.status \in {"Failure", "Running"}

\* C3 witness: a ticked Sequence whose first child succeeds and whose second
\* fails before a child that would return Running
C3_Witness ==
    \E e \in TickedOfKind("Sequence") :
        LET node == node_at(root, e.path) IN
        /\ Len(node.children) = 3
        /\ ChildStatus(node, e.path, 1) = "Success"
        /\ ChildStatus(node, e.path, 2) = "Failure"
        /\ ChildStatus(node, e.path, 3) = "Running"
        /\ e.status = "Failure"

\* The log of the last tick (empty when the tree was not ticked)
LastLog == IF bt_tick = None THEN <<>> ELSE (CHOOSE o \in bt_tick : TRUE).log

IsPrefix(p, q) == Len(p) <= Len(q) /\ SubSeq(q, 1, Len(p)) = p

\* The status that lets a composite of `kind` go on to its next child
GoesOn(kind) == IF kind = "Selector" THEN "Failure" ELSE "Success"

\* C4: in one tick no node is ticked twice, and the children a ticked
\* composite ticks are its first k children in declared order, where every
\* child before the k-th let it go on and the k-th decided it or is the last;
\* nothing at or below a child after the k-th is ticked
C4_ChildrenInOrderUntilDecided ==
    LET log == LastLog IN
    /\ \A a, b \in 1..Len(log) : log[a].path = log[b].path => a = b
    /\ \A a \in 1..Len(log) :
         LET node == node_at(root, log[a].path)
             path == log[a].path
             \* positions in the log of the ticks of direct children
             at == {b \in 1..Len(log) : /\ Len(log[b].path) = Len(path) + 1
                                         /\ IsPrefix(path, log[b].path)}
             k == Cardinality(at)
             child(b) == log[b].path[Len(path) + 1]
         IN IsComposite(node) =>
              /\ {child(b) : b \in at} = 1..k
              /\ \A b, c \in at : b < c => child(b) < child(c)
              /\ \A b \in at : a < b
              /\ \A b \in at :
                    child(b) < k => log[b].status = GoesOn(node.kind)
              /\ \/ k = Len(node.children)
                 \/ \E b \in at : /\ child(b) = k
                                  /\ log[b].status # GoesOn(node.kind)
              /\ \A b \in 1..Len(log) :
                    /\ IsPrefix(path, log[b].path)
                    /\ Len(log[b].path) > Len(path)
                    => log[b].path[Len(path) + 1] <= k

\* C4 witness: the root ticked its first child, which decided it, and its
\* second child, a composite with a child of its own, was not ticked, nor
\* was anything below it
C4_Witness ==
    LET log == LastLog IN
    /\ IsComposite(root)
    /\ Len(root.children) = 2
    /\ IsComposite(root.children[2])
    /\ root.children[2].children # <<>>
    /\ Len(log) = 2
    /\ log[1].path = <<>>
    /\ log[2].path = <<1>>
    /\ log[2].status # GoesOn(root.kind)
    /\ \A b \in 1..Len(log) : ~IsPrefix(<<2>>, log[b].path)

\* Every child of `node` returns Running when ticked
AllChildrenRunning(node, path) ==
    \A i \in 1..Len(node.children) : ChildStatus(node, path, i) = "Running"

\* C5 as stated: a ticked Selector or Sequence whose children all return
\* Running returns Running, for every list of children
C5_AllRunningGivesRunning ==
    \A e \in TickedOfKind("Selector") \cup TickedOfKind("Sequence") :
        AllChildrenRunning(node_at(root, e.path), e.path)
            => e.status = "Running"

\* C5 amended: a ticked Selector or Sequence with at least one child, whose
\* children all return Running, returns Running
C5_AllRunningNonEmptyGivesRunning ==
    \A e \in TickedOfKind("Selector") \cup TickedOfKind("Sequence") :
        LET node == node_at(root, e.path) IN
        node.children # <<>> /\ AllChildrenRunning(node, e.path)
            => e.status = "Running"

\* C5 witness: a ticked Selector with two children and a ticked Sequence
\* with a child, the children of each all returning Running
C5_Witness ==
    /\ \E e \in TickedOfKind("Selector") :
          LET node == node_at(root, e.path) IN
          /\ Len(node.children) >= 2
          /\ AllChildrenRunning(node, e.path)
          /\ e.status = "Running"
    /\ \E e \in TickedOfKind("Sequence") :
          LET node == node_at(root, e.path) IN
          /\ Len(node.children) >= 1
          /\ AllChildrenRunning(node, e.path)
          /\ e.status = "Running"

\* The tick calls of the tick before the last one
PrevLog == IF bt_prev = None THEN <<>> ELSE (CHOOSE o \in bt_prev : TRUE).log

\* C14: a tick that follows a tick with no leaf changed in between returns
\* the same result and ticks the same children, and every Selector and
\* Sequence ticked starts at its first child
C14_TickRepeatsFromFirstChild ==
    (bt_prev # None /\ bt_tick # None) =>
        /\ bt_tick = bt_prev
        /\ \A j \in 1..Len(LastLog) :
              LET node == node_at(root, LastLog[j].path) IN
              (IsComposite(node) /\ Len(node.children) > 0) =>
                  /\ j < Len(LastLog)
                  /\ LastLog[j + 1].path = Append(LastLog[j].path, 1)

\* C14 witness: the tree is ticked again after a tick in which a child
\* other than the first returned Running to its Selector or Sequence
C14_Witness ==
    /\ bt_prev # None /\ bt_tick # None
    /\ \E j \in 1..Len(PrevLog) :
          LET path == PrevLog[j].path IN
          /\ PrevLog[j].status = "Running"
          /\ Len(path) > 0
          /\ path[Len(path)] > 1

(***************************************************************************)
(* utility_ai/mod.rs                                                       *)
(***************************************************************************)

\* An f32 score: a number, in units of 1.0, or NaN
F32(v) == [nan |-> FALSE, v |-> v]
NaN == [nan |-> TRUE, v |-> 0]

\* a > b on f32: false when either side is NaN
Gt(a, b) == ~a.nan /\ ~b.nan /\ a.v > b.v

\* let mut best_score = -1.0
INITIAL_BEST_SCORE == -1

ScoreSpan == 2
MaxConsiderations == 4

Scores == {F32(v) : v \in (0 - ScoreSpan)..ScoreSpan} \cup {NaN}

\* UtilityAi::select_best, the loop from consideration i on: the action is
\* named by the index of its consideration, `scored` lists the scorers called
RECURSIVE select_best_loop(_, _, _, _, _)
select_best_loop(list, i, best_score, best_action, scored) ==
    IF i > Len(list)
    THEN [best_action |-> best_action, scored |-> scored]
    ELSE LET score == list[i] IN
         IF Gt(score, best_score)
         THEN select_best_loop(list, i + 1, score, Some(i), Append(scored, i))
         ELSE select_best_loop(list, i + 1, best_score, best_action,
                               Append(scored, i))

\* A select_best that starts from the first consideration's action
select_best_default_first(list) ==
    select_best_loop(list, 1, F32(INITIAL_BEST_SCORE), Some(1), <<>>)

\* UtilityAi::select_best
select_best(list) ==
    select_best_loop(list, 1, F32(INITIAL_BEST_SCORE), None, <<>>)

InitUtilityAi ==
    /\ considerations \in
          UNION {[1..n -> Scores] : n \in 0..MaxConsiderations}
    /\ ua_selected = None
    /\ IdleStateMachine /\ IdleBehaviorTree /\ IdleTargeting /\ IdleRest

\* A call of select_best by the host
SelectBest ==
    /\ ua_selected' = Some(select_best(considerations))
    /\ UNCHANGED <<considerations, smVars, btVars, tgVars, restVars>>

\* The world changes and the scorer of consideration i returns another score
ScoreChange(i, score) ==
    /\ considerations[i] # score
    /\ considerations' = [considerations EXCEPT ![i] = score]
    /\ ua_selected' = None
    /\ UNCHANGED <<smVars, btVars, tgVars, restVars>>

NextUtilityAi ==
    \/ SelectBest
    \/ \E i \in 1..Len(considerations), score \in Scores : ScoreChange(i, score)

SpecUtilityAi == InitUtilityAi /\ [][NextUtilityAi]_vars

\* The considerations whose score is the maximum of a list without NaN
MaxScored(list) ==
    {i \in 1..Len(list) : \A j \in 1..Len(list) : list[i].v >= list[j].v}

\* C6 as stated: for a non-empty list (of numbers), select_best returns the
\* action of the earliest consideration whose score is the maximum of the list
C6_FirstOfMaximumSelected ==
    \A r \in ua_selected :
        /\ considerations # <<>>
        /\ \A i \in 1..Len(considerations) : ~considerations[i].nan
        => r.best_action =
             Some(CHOOSE i \in MaxScored(considerations) :
                     \A j \in MaxScored(considerations) : i <= j)

\* C7 as stated: select_best returns an action whenever the list is not
\* empty, whatever the scorers return
C7_ActionUnlessEmpty ==
    \A r \in ua_selected :
        considerations # <<>> => r.best_action # None

\* C12: for an empty list select_best returns None and calls no scorer
C12_EmptyListGivesNone ==
    \A r \in ua_selected :
        considerations = <<>> => r.best_action = None /\ r.scored = <<>>

\* C12 witness: select_best has run on an empty list
C12_Witness ==
    /\ considerations = <<>>
    /\ ua_selected = Some([best_action |-> None, scored |-> <<>>])

(***************************************************************************)
(* targeting/mod.rs                                                        *)
(***************************************************************************)

MaxCoord == 1
MaxRange == 2

\* Translations lie on a grid; Vision ranges are whole numbers
Positions == (0..MaxCoord) \X (0..MaxCoord)
Ranges == 0..MaxRange

\* The entities that carry Vision and Target; any entity may be Targetable
Viewers == {"e1", "e2"}

\* A pass reads translations only through the distance between two of them,
\* which a shift of the whole world leaves as it is: e1 stays at the origin
\* and the others move about it
Anchor == "e1"

\* A distance is kept as its square, which orders distances (and ranges,
\* none of them negative) as their values do
Squared(x) == x * x

\* Vec3::distance, squared
distance(a, b) == Squared(a[1] - b[1]) + Squared(a[2] - b[2])

\* The orders in which a query may yield the entities of `set`
Orders(set) ==
    {order \in [1..Cardinality(set) -> set] :
        \A i, j \in 1..Cardinality(set) : order[i] = order[j] => i = j}

\* An inner loop that admits a candidate at exactly the closest distance
scan_or_equal(order, i, entity, closest_target, closest_distance) ==
    LET target_entity == order[i]
        d == distance(translation[entity], translation[target_entity])
    IN IF entity # target_entity /\ d <= closest_distance
       THEN [target |-> Some(target_entity), distance |-> d]
       ELSE [target |-> closest_target, distance |-> closest_distance]

\* An inner loop without the check that skips the entity itself
scan_with_self(order, i, entity, closest_target, closest_distance) ==
    LET target_entity == order[i]
        d == distance(translation[entity], translation[target_entity])
    IN IF d < closest_distance
       THEN [target |-> Some(target_entity), distance |-> d]
       ELSE [target |-> closest_target, distance |-> closest_distance]

\* update_targets, one round of the inner loop: the closest target and
\* distance after the i-th entity of targets_query
scan_step(order, i, entity, closest_target, closest_distance) ==
    LET target_entity == order[i] IN
    IF entity = target_entity
    THEN [target |-> closest_target, distance |-> closest_distance]
    ELSE LET d == distance(translation[entity], translation[target_entity])
         IN IF d < closest_distance
            THEN [target |-> Some(target_entity), distance |-> d]
            ELSE [target |-> closest_target, distance |-> closest_distance]

\* update_targets, the inner loop from the i-th entity of targets_query on
RECURSIVE scan(_, _, _, _, _)
scan(order, i, entity, closest_target, closest_distance) ==
    IF i > Len(order) THEN closest_target
    ELSE LET c == scan_step(order, i, entity, closest_target, closest_distance)
         IN scan(order, i + 1, entity, c.target, c.distance)

\* The entities the outer query yields: alive, with Vision and Target
Queried == {e \in alive : vision[e] # None}

\* Vision { range, field_of_view }
Vision(range, field_of_view) ==
    [range |-> range, field_of_view |-> field_of_view]

\* field_of_view: 360.0, the example's value
FULL_CIRCLE == 360

FieldsOfView == {0, 90, FULL_CIRCLE}

VisionRange(e) == (CHOOSE v \in vision[e] : TRUE).range

\* An update_targets that writes the Target only when it found a candidate
update_targets_keep(order) ==
    [e \in Entities |->
        IF e \in Queried
        THEN LET found == scan(order, 1, e, None, Squared(VisionRange(e)))
             IN IF found = None THEN target[e] ELSE found
        ELSE target[e]]

\* An update_targets for which a field of view of 0 sees nothing
update_targets_narrow(visions, order) ==
    [e \in Entities |->
        IF e \in alive /\ visions[e] # None
        THEN LET v == CHOOSE v \in visions[e] : TRUE IN
             IF v.field_of_view = 0 THEN None
             ELSE scan(order, 1, e, None, Squared(v.range))
        ELSE target[e]]

\* update_targets over the given Vision components
update_targets_in(visions, order) ==
    [e \in Entities |->
        IF e \in alive /\ visions[e] # None
        THEN LET v == CHOOSE v \in visions[e] : TRUE IN
             scan(order, 1, e, None, Squared(v.range))
        ELSE target[e]]

\* update_targets: the Target components after the pass, targets_query
\* yielding the Targetable entities in `order`
update_targets(order) == update_targets_in(vision, order)

InitTargeting ==
    /\ alive = Entities
    /\ translation \in {t \in [Entities -> Positions] : t[Anchor] = <<0, 0>>}
    /\ \E ranges \in [Viewers -> Ranges] :
          vision = [e \in Entities |->
                      IF e \in Viewers
                      THEN Some(Vision(ranges[e], FULL_CIRCLE))
                      ELSE None]
    /\ targetable \in SUBSET Entities
    /\ target = [e \in Entities |-> None]
    /\ pass_before = None
    /\ IdleStateMachine /\ IdleBehaviorTree /\ IdleUtilityAi /\ IdleRest

\* One run of the update_targets system
UpdateTargets ==
    /\ \E order \in Orders(alive \cap targetable) :
          target' = update_targets(order)
    /\ pass_before' = Some(target)
    /\ state_before' = None
    /\ UNCHANGED <<alive, translation, vision, targetable, enemy_sm>>
    /\ UNCHANGED <<smVars, btVars, uaVars, otherVars>>

\* The host moves an entity, one step along an axis at a time
Move(e, position) ==
    /\ e \in alive \ {Anchor}
    /\ distance(translation[e], position) = 1
    /\ translation' = [translation EXCEPT ![e] = position]
    /\ pass_before' = None
    /\ state_before' = None
    /\ UNCHANGED <<alive, vision, targetable, target, enemy_sm>>
    /\ UNCHANGED <<smVars, btVars, uaVars, otherVars>>

\* The host despawns an entity, and its components with it; Targets that
\* name it are left as they are
Despawn(e) ==
    /\ e \in alive
    /\ alive' = alive \ {e}
    /\ target' = [target EXCEPT ![e] = None]
    /\ enemy_sm' = [enemy_sm EXCEPT ![e] = None]
    /\ pass_before' = None
    /\ state_before' = None
    /\ UNCHANGED <<translation, vision, targetable>>
    /\ UNCHANGED <<smVars, btVars, uaVars, otherVars>>

NextTargeting ==
    \/ UpdateTargets
    \/ \E e \in Entities, position \in Positions : Move(e, position)
    \/ \E e \in Entities : Despawn(e)

SpecTargeting == InitTargeting /\ [][NextTargeting]_vars

\* A pass has just run: nothing has moved or been despawned since
PassJustRan == pass_before # None

\* The Targetable entities other than e that are alive and whose distance
\* from e is strictly less than e's Vision range
InRange(e) ==
    {t \in (alive \cap targetable) \ {e} :
        distance(translation[e], translation[t]) < Squared(VisionRange(e))}

\* C8: after a pass the Target of every entity with Vision is an in-range
\* candidate no farther than any other in-range candidate, and is none
\* exactly when no candidate is in range
C8_TargetIsNearestInRange ==
    PassJustRan =>
        \A e \in Queried :
            IF InRange(e) = {}
            THEN target[e] = None
            ELSE \E t \in InRange(e) :
                    /\ target[e] = Some(t)
                    /\ \A u \in InRange(e) :
                          distance(translation[e], translation[t])
                              <= distance(translation[e], translation[u])

\* C8 witness: after a pass one entity has the nearer of two in-range
\* candidates as Target, and another has none although a candidate stands at
\* exactly its range
C8_Witness ==
    /\ PassJustRan
    /\ \E e \in Queried :
          \E t, u \in InRange(e) :
             /\ distance(translation[e], translation[t])
                   < distance(translation[e], translation[u])
             /\ target[e] = Some(t)
    /\ \E e \in Queried :
          \E t \in (alive \cap targetable) \ {e} :
             /\ distance(translation[e], translation[t])
                   = Squared(VisionRange(e))
             /\ target[e] = None

\* C9: after a pass a Target is none when no candidate is in range and
\* otherwise names a live in-range candidate, whatever it held before
C9_NoStaleTarget ==
    PassJustRan =>
        \A e \in Queried :
            /\ InRange(e) = {} => target[e] = None
            /\ target[e] \subseteq InRange(e)
            /\ target[e] \subseteq alive

\* C9 witness: after a pass an entity that held a Target before it has
\* none, the entity it held having been despawned, and another entity that
\* held a Target has none, its candidates being alive and out of range
C9_Witness ==
    /\ PassJustRan
    /\ \E before \in pass_before :
          /\ \E e \in Queried, t \in Entities :
                /\ before[e] = Some(t)
                /\ t \notin alive
                /\ target[e] = None
          /\ \E e \in Queried, t \in alive :
                /\ before[e] = Some(t)
                /\ target[e] = None

\* C10: an entity never has itself as Target
C10_NeverTargetsItself ==
    \A e \in Entities : target[e] # Some(e)

\* C10 witness: after a pass a Targetable entity with Vision, at distance 0
\* from itself and so within its own range, has another Target or none
C10_Witness ==
    /\ PassJustRan
    /\ \E e \in Queried \cap targetable :
          /\ distance(translation[e], translation[e]) < Squared(VisionRange(e))
          /\ InRange(e) = {}
          /\ target[e] = None
    /\ \E e \in Queried \cap targetable :
          /\ InRange(e) # {}
          /\ target[e] # None

\* The Vision components with their fields of view replaced
WithFieldsOfView(fov) ==
    [e \in Entities |->
        {Vision(v.range, fov[e]) : v \in vision[e]}]

\* C11: the Targets a pass leaves are those the same pass (the same order of
\* targets_query) leaves in every world that differs in fields of view only
C11_FieldOfViewIgnored ==
    PassJustRan =>
        \E order \in Orders(alive \cap targetable) :
            \A fov \in [Entities -> FieldsOfView] :
                target = update_targets_in(WithFieldsOfView(fov), order)

\* C11 witness: after a pass an entity with Vision has a Target
C11_Witness ==
    /\ PassJustRan
    /\ \E e \in Queried :
          /\ target[e] # None
          /\ \E v \in vision[e] : v.field_of_view \in FieldsOfView
          /\ Cardinality(InRange(e)) = 2

(***************************************************************************)
(* examples/basic_ai.rs                                                    *)
(***************************************************************************)

\* if distance < 2.0
ATTACK_DISTANCE == 2

\* An update_enemy_state that attacks from a distance of 2.0 as well
enemy_state_after_at_reach(e, state_machine) ==
    IF target[e] # None
    THEN LET target_entity == CHOOSE t \in target[e] : TRUE IN
         IF target_entity \in alive \cap targetable
         THEN IF distance(translation[e], translation[target_entity])
                    <= Squared(ATTACK_DISTANCE)
              THEN transition_to(state_machine, "Attacking")
              ELSE transition_to(state_machine, "Chasing")
         ELSE state_machine
    ELSE transition_to(state_machine, "Idle")

\* update_enemy_state, for one enemy: its StateMachine after the system
enemy_state_after(e, state_machine) ==
    IF target[e] # None
    THEN LET target_entity == CHOOSE t \in target[e] : TRUE IN
         \* player_query.get(target_entity)
         IF target_entity \in alive \cap targetable
         THEN IF distance(translation[e], translation[target_entity])
                    < Squared(ATTACK_DISTANCE)
              THEN transition_to(state_machine, "Attacking")
              ELSE transition_to(state_machine, "Chasing")
         ELSE state_machine
    ELSE transition_to(state_machine, "Idle")

\* update_enemy_state: the StateMachine components after the system
update_enemy_state ==
    [e \in Entities |->
        IF e \in alive
        THEN {enemy_state_after(e, state_machine) : state_machine \in enemy_sm[e]}
        ELSE enemy_sm[e]]

Player == "e1"
Enemy == "e2"

\* Transform::from_xyz(5.0, 0.0, 5.0), range: 10.0
ENEMY_X == 5
ENEMY_Z == 5
ENEMY_RANGE == 10

\* The frame count wraps
FrameWrap == 32

\* The systems the toolkit's plugins add to Update: none
AiToolkitPlugin_systems == {}

\* The systems of the Update schedule
UpdateSystems ==
    AiToolkitPlugin_systems \cup {"update_enemy_state", "update_enemy_behavior"}

\* App::new(): nothing is spawned yet
InitExample ==
    /\ IdleTargeting /\ IdleEnemies /\ IdleApp
    /\ IdleStateMachine /\ IdleBehaviorTree /\ IdleUtilityAi /\ IdleCombat
    /\ IdleVoice

\* The Startup schedule: setup
Startup ==
    /\ app_phase = "Startup"
    /\ app_phase' = "Update"
    /\ alive' = {Player, Enemy}
    /\ translation' = [translation EXCEPT ![Enemy] = <<ENEMY_X, ENEMY_Z>>]
    /\ vision' = [vision EXCEPT ![Enemy] = Some(Vision(ENEMY_RANGE, FULL_CIRCLE))]
    /\ targetable' = {Player}
    /\ target' = [target EXCEPT ![Enemy] = None]
    /\ enemy_sm' = [enemy_sm EXCEPT ![Enemy] = Some(new("Idle"))]
    /\ UNCHANGED <<pass_before, state_before, app_frame, app_ran>>
    /\ UNCHANGED <<smVars, btVars, uaVars, coVars, voVars>>

\* One system of the Update schedule runs, each once in a frame, in any order
RunSystem(system) ==
    /\ app_phase = "Update"
    /\ system \notin app_ran
    /\ app_ran' = app_ran \cup {system}
    /\ IF system = "update_targets"
       THEN /\ \E order \in Orders(alive \cap targetable) :
                  target' = update_targets(order)
            /\ UNCHANGED enemy_sm
       ELSE IF system = "update_enemy_state"
       THEN /\ enemy_sm' = update_enemy_state
            /\ UNCHANGED target
       ELSE \* update_enemy_behavior prints the states
            UNCHANGED <<target, enemy_sm>>
    /\ UNCHANGED <<alive, translation, vision, targetable, pass_before>>
    /\ UNCHANGED <<state_before, app_phase, app_frame>>
    /\ UNCHANGED <<smVars, btVars, uaVars, coVars, voVars>>

\* The frame ends when every system has run
EndFrame ==
    /\ app_phase = "Update"
    /\ app_ran = UpdateSystems
    /\ app_ran' = {}
    /\ app_frame' = (app_frame + 1) % FrameWrap
    /\ UNCHANGED <<app_phase, tgVars, enVars>>
    /\ UNCHANGED <<smVars, btVars, uaVars, coVars, voVars>>

NextExample ==
    \/ Startup
    \/ \E system \in UpdateSystems : RunSystem(system)
    \/ EndFrame

\* App::run() goes through Startup and then frame after frame
SpecExample == InitExample /\ [][NextExample]_vars /\ WF_vars(NextExample)

\* C13 as stated: the enemy eventually has the player as Target and has
\* left the Idle state
C13_EnemyEventuallyTargetsPlayer ==
    <>(/\ target[Enemy] = Some(Player)
       /\ enemy_sm[Enemy] # None
       /\ enemy_sm[Enemy] # Some(new("Idle")))

(***************************************************************************)
(* update_enemy_state in a world that moves                                *)
(***************************************************************************)

MaxReach == 2

\* Where the entities may stand: far enough apart along one axis for
\* distances below, at and above ATTACK_DISTANCE
Reach == (0..MaxReach) \X (0..MaxCoord)

\* One enemy, in any state, among entities of which any may be Targetable
InitEnemies ==
    /\ alive = Entities
    /\ translation \in {t \in [Entities -> Reach] : t[Anchor] = <<0, 0>>}
    /\ \E range \in {MaxRange, ENEMY_RANGE} :
          vision = [e \in Entities |->
                      IF e = Enemy THEN Some(Vision(range, FULL_CIRCLE))
                      ELSE None]
    /\ targetable \in SUBSET (Entities \ {Enemy})
    /\ target = [e \in Entities |-> None]
    /\ pass_before = None
    /\ \E state \in EnemyState :
          enemy_sm = [e \in Entities |->
                        IF e = Enemy THEN Some(new(state)) ELSE None]
    /\ state_before = None
    /\ IdleStateMachine /\ IdleBehaviorTree /\ IdleUtilityAi /\ IdleOther

\* One run of the update_enemy_state system
UpdateEnemyState ==
    /\ enemy_sm' = update_enemy_state
    /\ state_before' = Some(enemy_sm)
    /\ pass_before' = None
    /\ UNCHANGED <<alive, translation, vision, targetable, target>>
    /\ UNCHANGED <<smVars, btVars, uaVars, otherVars>>

\* The host removes the Targetable marker from an entity
RemoveTargetable(e) ==
    /\ e \in alive \cap targetable
    /\ targetable' = targetable \ {e}
    /\ pass_before' = None
    /\ state_before' = None
    /\ UNCHANGED <<alive, translation, vision, target, enemy_sm>>
    /\ UNCHANGED <<smVars, btVars, uaVars, otherVars>>

NextEnemies ==
    \/ UpdateTargets
    \/ UpdateEnemyState
    \/ \E e \in Entities, position \in Reach : Move(e, position)
    \/ \E e \in Entities : Despawn(e)
    \/ \E e \in Entities : RemoveTargetable(e)

SpecEnemies == InitEnemies /\ [][NextEnemies]_vars

\* update_enemy_state has just run
StateJustUpdated == state_before # None

\* The enemies the system has just updated
Updated == {e \in alive : enemy_sm[e] # None}

\* The state of an enemy's StateMachine
StateOf(e) == (CHOOSE state_machine \in enemy_sm[e] : TRUE).current_state

\* The state an enemy was in before the system ran
StateBefore(e) ==
    (CHOOSE state_machine \in (CHOOSE b \in state_before : TRUE)[e] : TRUE)
        .current_state

\* The enemy's Target names an entity that is gone or no longer Targetable
Stale(e) == \E t \in target[e] : t \notin alive \cap targetable

\* C15 as stated: after update_enemy_state an enemy whose Target is stale
\* is Idle
C15_StaleTargetGivesIdle ==
    StateJustUpdated =>
        \A e \in Updated : Stale(e) => StateOf(e) = "Idle"

\* C16: after update_enemy_state an enemy with no target is Idle, and one
\* whose Target is a live Targetable is Attacking when the distance is
\* below 2 and Chasing otherwise, whatever its state before
C16_StateFollowsTarget ==
    StateJustUpdated =>
        \A e \in Updated :
            /\ target[e] = None => StateOf(e) = "Idle"
            /\ \A t \in target[e] \cap alive \cap targetable :
                  StateOf(e) =
                      IF distance(translation[e], translation[t])
                            < Squared(ATTACK_DISTANCE)
                      THEN "Attacking" ELSE "Chasing"

\* C16 witness: an Attacking enemy exactly 2 away from its live target has
\* been updated
C16_Witness ==
    /\ StateJustUpdated
    /\ \E e \in Updated : \E t \in target[e] \cap alive \cap targetable :
          /\ distance(translation[e], translation[t]) = Squared(ATTACK_DISTANCE)
          /\ StateBefore(e) = "Attacking"
          /\ StateOf(e) = "Chasing"

(***************************************************************************)
(* bevy-combat/src/state.rs                                                *)
(***************************************************************************)

CombatState ==
    {"None", "Starting", "PlayerTurn", "EnemyTurn", "Processing", "Victory",
     "Defeat"}

MaxRuns == 12

\* A manage_combat_state that ends the player's turn as well
manage_combat_state_turns(state, next_state) ==
    CASE state = "Starting" -> Some("PlayerTurn")
      [] state = "PlayerTurn" -> Some("EnemyTurn")
      [] OTHER -> next_state

\* manage_combat_state: NextState after the system has run in `state`
manage_combat_state(state, next_state) ==
    CASE state = "Starting" -> Some("PlayerTurn")
      [] OTHER -> next_state

\* The app is in any CombatState and no transition is pending
InitCombat ==
    /\ combat_state \in CombatState
    /\ next_combat_state = None
    /\ combat_initial = combat_state
    /\ combat_seen = <<>>
    /\ IdleStateMachine /\ IdleBehaviorTree /\ IdleUtilityAi /\ IdleTargeting
    /\ IdleEnemies /\ IdleApp /\ IdleVoice

\* One run of the manage_combat_state system
ManageCombatState ==
    /\ Len(combat_seen) < MaxRuns
    /\ next_combat_state' = manage_combat_state(combat_state, next_combat_state)
    /\ combat_seen' = Append(combat_seen, combat_state)
    /\ UNCHANGED <<combat_state, combat_initial>>
    /\ UNCHANGED <<smVars, btVars, uaVars, tgVars, enVars, apVars, voVars>>

\* Bevy's StateTransition schedule: a pending NextState becomes the State
StateTransition ==
    /\ next_combat_state # None
    /\ combat_state' = CHOOSE next \in next_combat_state : TRUE
    /\ next_combat_state' = None
    /\ UNCHANGED <<combat_initial, combat_seen>>
    /\ UNCHANGED <<smVars, btVars, uaVars, tgVars, enVars, apVars, voVars>>

NextCombat ==
    \/ ManageCombatState
    \/ StateTransition

SpecCombat == InitCombat /\ [][NextCombat]_vars

\* C20: the only transition manage_combat_state requests is Starting to
\* PlayerTurn: once it has run in Starting, PlayerTurn is pending, and every
\* other state is kept with nothing pending
C20_OnlyStartingLeadsOn ==
    /\ next_combat_state \in {None, Some("PlayerTurn")}
    /\ next_combat_state # None => combat_state = "Starting"
    /\ (combat_state = "Starting" /\ combat_seen # <<>>) =>
            next_combat_state = Some("PlayerTurn")
    /\ IF combat_initial = "Starting"
       THEN combat_state \in {"Starting", "PlayerTurn"}
       ELSE combat_state = combat_initial
    /\ \A i \in 1..Len(combat_seen) - 1 :
          combat_seen[i] # "Starting" => combat_seen[i + 1] = combat_seen[i]

\* C20 witness: the system has run in Starting, the transition to PlayerTurn
\* has been made, and the system has run in PlayerTurn more than once
C20_Witness ==
    /\ combat_state = "PlayerTurn"
    /\ \E i \in 1..Len(combat_seen) - 2 :
          /\ combat_seen[i] = "Starting"
          /\ combat_seen[i + 1] = "PlayerTurn"
          /\ combat_seen[i + 2] = "PlayerTurn"

(***************************************************************************)
(* vintage_ai_client/src/voice.rs                                          *)
(***************************************************************************)

\* Texts, as sequences of bytes
Texts == {<<"h", "i">>, <<"h", "e", "l", "l", "o">>}
VoiceIds == {"rachel", "adam"}
Models == {"eleven_multilingual_v2"}

\* The arguments of generate_voice, as far as it reads them
Args == [text : Texts, voice_id : VoiceIds, model : Models]

\* The audio the TTS provider may answer with
Audio == {"a1", "a2"}

MaxVoiceCalls == 3

\* Result<Vec<u8>>
Ok(data) == [ok |-> TRUE, value |-> data]
Err(reason) == [ok |-> FALSE, value |-> reason]

\* CachedData
Binary(data) == [kind |-> "Binary", data |-> data]
NotBinary == [kind |-> "Text", data |-> "text"]

\* A map with `key` bound to `value`
MapWith(map, key, value) ==
    [k \in DOMAIN map \cup {key} |-> IF k = key THEN value ELSE map[k]]

\* The number a map of counts holds for `key`
Count(map, key) == IF key \in DOMAIN map THEN map[key] ELSE 0

\* format!("{:x}", Sha256::digest(text.as_bytes()))
text_hash(text) == <<"sha256", text>>

\* The params the cache key is made of
params(args) ==
    [voice_id |-> args.voice_id, model |-> args.model,
     text_hash |-> text_hash(args.text)]

\* AiCache::generate_key
generate_key(kind, provider, key_params) == <<kind, provider, key_params>>

\* AiCache::get: the entry under the key, if there is one
cache_get(entries, key) ==
    IF key \in DOMAIN entries THEN Some(entries[key]) ELSE None

\* AiCache::put
cache_put(entries, key, data) == MapWith(entries, key, data)

\* TokenCounter::record_usage
record_usage(counter, provider, input_tokens, output_tokens) ==
    Append(counter, <<provider, input_tokens, output_tokens>>)

\* An api_key check that lets every key pass
api_key_is_empty_never(key) == FALSE

\* self.api_key.is_empty()
api_key_is_empty(key) == key = ""

\* A cache check that never finds audio
cached_binary_never(cached) == None

\* The cache check: the audio of a cached Binary entry
cached_binary(cached) == {c.data : c \in {x \in cached : x.kind = "Binary"}}

\* text.len() / 4
estimated_tokens(text) == Len(text) \div 4

\* The cache the program starts with: empty, or one entry that is not audio
InitialCaches ==
    {<<>>} \cup
    {MapWith(<<>>, generate_key("voice", "elevenlabs", params(args)), NotBinary) :
        args \in Args}

ArgsOf(t) == CHOOSE args \in vo_args[t] : TRUE
KeyOf(t) == CHOOSE key \in vo_key[t] : TRUE
AudioOf(t) == CHOOSE audio \in vo_audio[t] : TRUE

\* The call of task t returns
Returns(t, result) ==
    /\ vo_pc' = [vo_pc EXCEPT ![t] = "done"]
    /\ vo_result' = [vo_result EXCEPT ![t] = Some(result)]
    /\ vo_succeeded' =
          IF result.ok /\ ArgsOf(t) \notin DOMAIN vo_succeeded
          THEN MapWith(vo_succeeded, ArgsOf(t), result.value)
          ELSE vo_succeeded

\* generate_voice is called; it bails out when the api_key is empty
VoCall(t, args) ==
    /\ vo_pc[t] = "idle"
    /\ vo_calls < MaxVoiceCalls
    /\ vo_calls' = vo_calls + 1
    /\ vo_args' = [vo_args EXCEPT ![t] = Some(args)]
    /\ vo_snapshot' = [vo_snapshot EXCEPT ![t] =
                          Some([cache |-> cache, token_counter |-> token_counter])]
    /\ vo_prior' = [vo_prior EXCEPT ![t] =
                       IF args \in DOMAIN vo_succeeded
                       THEN Some(vo_succeeded[args]) ELSE None]
    /\ IF api_key_is_empty(api_key)
       THEN /\ vo_pc' = [vo_pc EXCEPT ![t] = "done"]
            /\ vo_result' = [vo_result EXCEPT ![t] = Some(Err("api_key"))]
       ELSE /\ vo_pc' = [vo_pc EXCEPT ![t] = "generate_key"]
            /\ UNCHANGED vo_result
    /\ UNCHANGED <<api_key, cache, token_counter, vo_key, vo_audio, vo_did,
                   vo_succeeded, vo_requests, vo_records>>
    /\ UNCHANGED <<smVars, btVars, uaVars, tgVars, enVars, apVars, coVars>>

\* The cache key is made, under the cache's lock
VoGenerateKey(t) ==
    /\ vo_pc[t] = "generate_key"
    /\ vo_key' = [vo_key EXCEPT ![t] =
                    Some(generate_key("voice", "elevenlabs", params(ArgsOf(t))))]
    /\ vo_did' = [vo_did EXCEPT ![t] = @ \cup {"generate_key"}]
    /\ vo_pc' = [vo_pc EXCEPT ![t] = "get"]
    /\ UNCHANGED <<api_key, cache, token_counter, vo_args, vo_audio, vo_result,
                   vo_calls, vo_snapshot, vo_prior, vo_succeeded, vo_requests,
                   vo_records>>
    /\ UNCHANGED <<smVars, btVars, uaVars, tgVars, enVars, apVars, coVars>>

\* The cache is checked, under its lock: cached audio is returned
VoGet(t) ==
    /\ vo_pc[t] = "get"
    /\ vo_did' = [vo_did EXCEPT ![t] = @ \cup {"get"}]
    /\ LET hit == cached_binary(cache_get(cache, KeyOf(t))) IN
       IF hit # None
       THEN Returns(t, Ok(CHOOSE data \in hit : TRUE))
       ELSE /\ vo_pc' = [vo_pc EXCEPT ![t] = "tts"]
            /\ UNCHANGED <<vo_result, vo_succeeded>>
    /\ UNCHANGED <<api_key, cache, token_counter, vo_args, vo_key, vo_audio,
                   vo_calls, vo_snapshot, vo_prior, vo_requests, vo_records>>
    /\ UNCHANGED <<smVars, btVars, uaVars, tgVars, enVars, apVars, coVars>>

\* tts.generate(text): the provider answers with audio or fails; no lock
\* is held
VoTts(t, answer) ==
    /\ vo_pc[t] = "tts"
    /\ vo_did' = [vo_did EXCEPT ![t] = @ \cup {"tts"}]
    /\ vo_requests' =
          MapWith(vo_requests, ArgsOf(t), Count(vo_requests, ArgsOf(t)) + 1)
    /\ IF answer = None
       THEN /\ Returns(t, Err("tts"))
            /\ UNCHANGED vo_audio
       ELSE /\ vo_audio' = [vo_audio EXCEPT ![t] = answer]
            /\ vo_pc' = [vo_pc EXCEPT ![t] = "put"]
            /\ UNCHANGED <<vo_result, vo_succeeded>>
    /\ UNCHANGED <<api_key, cache, token_counter, vo_args, vo_key, vo_calls,
                   vo_snapshot, vo_prior, vo_records>>
    /\ UNCHANGED <<smVars, btVars, uaVars, tgVars, enVars, apVars, coVars>>

\* The audio is put into the cache, under its lock; put may fail, having
\* written or not
VoPut(t, written, failed) ==
    /\ vo_pc[t] = "put"
    /\ vo_did' = [vo_did EXCEPT ![t] = @ \cup {"put"}]
    /\ written \/ failed
    /\ cache' = IF written
                THEN cache_put(cache, KeyOf(t), Binary(AudioOf(t)))
                ELSE cache
    /\ IF failed
       THEN Returns(t, Err("put"))
       ELSE /\ vo_pc' = [vo_pc EXCEPT ![t] = "record"]
            /\ UNCHANGED <<vo_result, vo_succeeded>>
    /\ UNCHANGED <<api_key, token_counter, vo_args, vo_key, vo_audio, vo_calls,
                   vo_snapshot, vo_prior, vo_requests, vo_records>>
    /\ UNCHANGED <<smVars, btVars, uaVars, tgVars, enVars, apVars, coVars>>

\* The usage is recorded, under the counter's lock, and the audio returned;
\* record_usage may fail
VoRecord(t, failed) ==
    /\ vo_pc[t] = "record"
    /\ vo_did' = [vo_did EXCEPT ![t] = @ \cup {"record"}]
    /\ IF failed
       THEN /\ Returns(t, Err("record"))
            /\ UNCHANGED <<token_counter, vo_records>>
       ELSE /\ token_counter' =
                  record_usage(token_counter, "elevenlabs",
                               estimated_tokens(ArgsOf(t).text), 0)
            /\ vo_records' =
                  MapWith(vo_records, ArgsOf(t), Count(vo_records, ArgsOf(t)) + 1)
            /\ Returns(t, Ok(AudioOf(t)))
    /\ UNCHANGED <<api_key, cache, vo_args, vo_key, vo_audio, vo_calls,
                   vo_snapshot, vo_prior, vo_requests>>
    /\ UNCHANGED <<smVars, btVars, uaVars, tgVars, enVars, apVars, coVars>>

\* The caller has its result and may call again
VoReturn(t) ==
    /\ vo_pc[t] = "done"
    /\ vo_pc' = [vo_pc EXCEPT ![t] = "idle"]
    /\ vo_args' = [vo_args EXCEPT ![t] = None]
    /\ vo_key' = [vo_key EXCEPT ![t] = None]
    /\ vo_audio' = [vo_audio EXCEPT ![t] = None]
    /\ vo_result' = [vo_result EXCEPT ![t] = None]
    /\ vo_did' = [vo_did EXCEPT ![t] = {}]
    /\ vo_snapshot' = [vo_snapshot EXCEPT ![t] = None]
    /\ vo_prior' = [vo_prior EXCEPT ![t] = None]
    /\ UNCHANGED <<api_key, cache, token_counter, vo_calls, vo_succeeded,
                   vo_requests, vo_records>>
    /\ UNCHANGED <<smVars, btVars, uaVars, tgVars, enVars, apVars, coVars>>

\* No call is in progress
Quiet == \A t \in Tasks : vo_pc[t] = "idle"

IdleButVoice ==
    /\ IdleStateMachine /\ IdleBehaviorTree /\ IdleUtilityAi /\ IdleTargeting
    /\ IdleEnemies /\ IdleApp /\ IdleCombat

InitVoice ==
    /\ api_key \in {"", "sk-key"}
    /\ cache \in InitialCaches
    /\ token_counter = <<>>
    /\ vo_pc = [t \in Tasks |-> "idle"]
    /\ vo_args = [t \in Tasks |-> None]
    /\ vo_key = [t \in Tasks |-> None]
    /\ vo_audio = [t \in Tasks |-> None]
    /\ vo_result = [t \in Tasks |-> None]
    /\ vo_calls = 0
    /\ vo_did = [t \in Tasks |-> {}]
    /\ vo_snapshot = [t \in Tasks |-> None]
    /\ vo_prior = [t \in Tasks |-> None]
    /\ vo_succeeded = <<>>
    /\ vo_requests = <<>>
    /\ vo_records = <<>>
    /\ IdleButVoice

\* The steps of a call once it is made
VoStep(t) ==
    \/ VoGenerateKey(t)
    \/ VoGet(t)
    \/ \E answer \in {None} \cup {Some(audio) : audio \in Audio} : VoTts(t, answer)
    \/ \E written, failed \in BOOLEAN : VoPut(t, written, failed)
    \/ \E failed \in BOOLEAN : VoRecord(t, failed)

\* Calls that do not overlap: a call is made only when none is in progress
NextVoice ==
    \/ \E t \in Tasks, args \in Args : Quiet /\ VoCall(t, args)
    \/ \E t \in Tasks : VoStep(t)
    \/ \E t \in Tasks : VoReturn(t)

SpecVoice == InitVoice /\ [][NextVoice]_vars

\* Clones of one VoiceGenerator with an empty cache, each making one call,
\* at any time
InitVoiceConcurrent ==
    /\ InitVoice
    /\ api_key # ""
    /\ cache = <<>>

NextVoiceConcurrent ==
    \/ \E t \in Tasks, args \in Args : VoCall(t, args)
    \/ \E t \in Tasks : VoStep(t)

SpecVoiceConcurrent == InitVoiceConcurrent /\ [][NextVoiceConcurrent]_vars

\* The calls that have returned
Done == {t \in Tasks : vo_pc[t] = "done"}
ResultOf(t) == CHOOSE result \in vo_result[t] : TRUE

\* C17: a call made after a call with the same voice_id, model and text has
\* succeeded returns the same bytes, and makes no TTS request, writes nothing
\* to the cache and records no usage
C17_LaterCallsServedFromCache ==
    \A t \in Done :
        vo_prior[t] # None =>
            /\ vo_result[t] = {Ok(data) : data \in vo_prior[t]}
            /\ vo_did[t] \cap {"tts", "put", "record"} = {}

\* C17 witness: such a later call has returned, after another voice's audio
\* was cached as well
C17_Witness ==
    \E t \in Done :
        /\ vo_prior[t] # None
        /\ ResultOf(t).ok
        /\ Cardinality(DOMAIN vo_succeeded) > 1

\* C18 as stated: for each voice_id, model and text at most one TTS request
\* is made and usage is recorded at most once
C18_OneRequestPerTriple ==
    \A args \in Args :
        /\ Count(vo_requests, args) <= 1
        /\ Count(vo_records, args) <= 1

\* C19: a call that fails on an empty api_key or a failed TTS request leaves
\* the cache and the token counter as they were when it was made, and with
\* an empty api_key a call does nothing but fail
C19_FailedCallLeavesNoTrace ==
    \A t \in Done :
        /\ (~ResultOf(t).ok /\ ResultOf(t).value \in {"api_key", "tts"}) =>
              vo_snapshot[t] =
                  Some([cache |-> cache, token_counter |-> token_counter])
        /\ api_key = "" =>
              /\ vo_result[t] = Some(Err("api_key"))
              /\ vo_did[t] = {}

\* C19 witness: a call has failed in its TTS request with audio and usage
\* of an earlier call on record
C19_Witness ==
    \E t \in Done :
        /\ vo_result[t] = Some(Err("tts"))
        /\ token_counter # <<>>
        /\ \E key \in DOMAIN cache : cache[key].kind = "Binary"

====
